---------------------------- MODULE Spec2Model ----------------------------
(***************************************************************************)
(* Model of the PDF render service.  The repository holds two variants of  *)
(* the same HTTP service: src/server.js ("server") and                     *)
(* src/unnamed/part_000 ("part000").  Both are modelled; the variable      *)
(* variant says which one a behaviour runs.                                *)
(*                                                                         *)
(* JavaScript strings are TLA+ strings (TLC evaluates Len, SubSeq and \o   *)
(* on them).  Other JavaScript values are tagged records.                  *)
(*                                                                         *)
(* Spec runs GET /v1/config and POST /v1/render requests one after the     *)
(* other with the clock standing still (all requests fall within one TTL   *)
(* window); every awaited upstream call succeeds or fails.  SpecCache runs *)
(* GET /v1/config requests while the clock advances and the spreadsheet is *)
(* edited.                                                                 *)
(*                                                                         *)
(* Assumed of the environment: the process environment is complete         *)
(* (SHEETS_SPREADSHEET_ID, SELL_PAT, SELL_BASE_URL are set), the header    *)
(* rows of the two tabs carry the documented column names, the arrays in   *)
(* required_placeholders hold strings, a successful copy returns an id,    *)
(* and upstream errors carry no statusCode property.                       *)
(***************************************************************************)
EXTENDS Integers, Sequences, FiniteSets, TLC

VARIABLES
    variant,    \* "server" (src/server.js) or "part000" (src/unnamed/part_000)
    env,        \* process.env: [RENDER_API_KEY], "" when the variable is not set
    sheet,      \* the spreadsheet: [templates, exam_packages], each a list of rows
    cache,      \* configCache / CONFIG_CACHE: [data, stamp] plus ghosts
    now,        \* Date.now()
    ticks,      \* number of clock advances so far (bounded)
    pc,         \* position of the request handler being run
    req,        \* the request in flight: kind and payload
    loc,        \* the handler's locals
    log,        \* external calls issued by the request in flight, in order
    resp,       \* the HTTP response of the request in flight
    peer,       \* a loadConfig call of another request, in flight at the same time
    ens,        \* the POST /v1/drive/folder/ensure requests in flight, by handler
    folders     \* Drive: the deal folders created so far

vars == <<variant, env, sheet, cache, now, ticks, pc, req, loc, log, resp, peer, ens, folders>>

-----------------------------------------------------------------------------
(* Bounds of the model *)

MaxTicks == 3

-----------------------------------------------------------------------------
(* JavaScript values *)

Undef == [t |-> "undefined"]
Null == [t |-> "null"]
Str(s) == [t |-> "string", s |-> s]
Num(n) == [t |-> "number", n |-> n]
Arr(a) == [t |-> "array", a |-> a]
Obj(f) == [t |-> "object", f |-> f]
NoFields == [k \in {} |-> Undef]

\* JavaScript truthiness
Truthy(v) ==
    CASE v.t = "undefined" -> FALSE
      [] v.t = "null" -> FALSE
      [] v.t = "string" -> v.s # ""
      [] v.t = "number" -> v.n # 0
      [] OTHER -> TRUE

CharAt(s, i) == SubSeq(s, i, i)

IsSpace(c) == c \in {" ", "\t", "\n"}

RECURSIVE TrimLeft(_)
TrimLeft(s) ==
    IF Len(s) > 0 /\ IsSpace(CharAt(s, 1)) THEN TrimLeft(SubSeq(s, 2, Len(s))) ELSE s

RECURSIVE TrimRight(_)
TrimRight(s) ==
    IF Len(s) > 0 /\ IsSpace(CharAt(s, Len(s)))
    THEN TrimRight(SubSeq(s, 1, Len(s) - 1))
    ELSE s

\* String.prototype.trim
Trim(s) == TrimRight(TrimLeft(s))

UpperCase ==
    <<"A", "B", "C", "D", "E", "F", "G", "H", "I", "J", "K", "L", "M",
      "N", "O", "P", "Q", "R", "S", "T", "U", "V", "W", "X", "Y", "Z">>

LowerCase ==
    <<"a", "b", "c", "d", "e", "f", "g", "h", "i", "j", "k", "l", "m",
      "n", "o", "p", "q", "r", "s", "t", "u", "v", "w", "x", "y", "z">>

UpperToLower ==
    [c \in {UpperCase[i] : i \in 1..Len(UpperCase)} |->
        LowerCase[CHOOSE i \in 1..Len(UpperCase) : UpperCase[i] = c]]

LowerChar(c) == IF c \in DOMAIN UpperToLower THEN UpperToLower[c] ELSE c

\* String.prototype.toLowerCase
RECURSIVE ToLowerCase(_)
ToLowerCase(s) ==
    IF s = "" THEN "" ELSE LowerChar(CharAt(s, 1)) \o ToLowerCase(SubSeq(s, 2, Len(s)))

\* String.prototype.split with a one-character separator: the list of segments
RECURSIVE SplitFrom(_, _, _)
SplitFrom(s, sep, cur) ==
    IF s = "" THEN <<cur>>
    ELSE IF CharAt(s, 1) = sep
         THEN <<cur>> \o SplitFrom(SubSeq(s, 2, Len(s)), sep, "")
         ELSE SplitFrom(SubSeq(s, 2, Len(s)), sep, cur \o CharAt(s, 1))

Split(s, sep) == SplitFrom(s, sep, "")

IsDigits(s) == Len(s) > 0 /\ \A i \in 1..Len(s) : CharAt(s, i) \in {"0", "1", "2", "3", "4", "5", "6", "7", "8", "9"}

DigitValue(c) ==
    CASE c = "0" -> 0 [] c = "1" -> 1 [] c = "2" -> 2 [] c = "3" -> 3 [] c = "4" -> 4
      [] c = "5" -> 5 [] c = "6" -> 6 [] c = "7" -> 7 [] c = "8" -> 8 [] c = "9" -> 9

RECURSIVE DigitsValue(_)
DigitsValue(s) ==
    IF s = "" THEN 0
    ELSE 10 * DigitsValue(SubSeq(s, 1, Len(s) - 1)) + DigitValue(CharAt(s, Len(s)))

\* JSON.parse of a scalar: a string literal without escapes, a number, null
JsonScalar(s) ==
    LET x == Trim(s) IN
    IF Len(x) >= 2 /\ CharAt(x, 1) = "\"" /\ CharAt(x, Len(x)) = "\""
       /\ \A i \in 2..(Len(x) - 1) : CharAt(x, i) # "\""
    THEN [ok |-> TRUE, v |-> Str(SubSeq(x, 2, Len(x) - 1))]
    ELSE IF IsDigits(x) THEN [ok |-> TRUE, v |-> Num(DigitsValue(x))]
    ELSE IF x = "null" THEN [ok |-> TRUE, v |-> Null]
    ELSE [ok |-> FALSE, v |-> Undef]

\* JSON.parse, for the texts a sheet cell of this model can hold: arrays of
\* scalars (no comma inside a string), the empty object, scalars; any other
\* text is a syntax error.  ok = FALSE stands for the SyntaxError thrown.
JsonParse(s) ==
    LET x == Trim(s) IN
    IF Len(x) >= 2 /\ CharAt(x, 1) = "[" /\ CharAt(x, Len(x)) = "]"
    THEN LET inner == Trim(SubSeq(x, 2, Len(x) - 1))
             parts == Split(inner, ",")
             elems == [i \in 1..Len(parts) |-> JsonScalar(parts[i])]
         IN  IF inner = "" THEN [ok |-> TRUE, v |-> Arr(<<>>)]
             ELSE IF \A i \in 1..Len(parts) : elems[i].ok
                  THEN [ok |-> TRUE, v |-> Arr([i \in 1..Len(parts) |-> elems[i].v])]
                  ELSE [ok |-> FALSE, v |-> Undef]
    ELSE IF x = "{}" THEN [ok |-> TRUE, v |-> Obj(NoFields)]
    ELSE JsonScalar(x)

-----------------------------------------------------------------------------
(* Config loader: src/server.js *)

CONFIG_TTL_MS == 60 * 1000

\* parseBoolean(value): the cell is a string or undefined
parseBoolean(value) ==
    IF value.t \in {"undefined", "null"} THEN FALSE
    ELSE ToLowerCase(Trim(value.s)) \in {"true", "1", "yes"}

\* parseJsonArray(raw, fieldName): ok = FALSE stands for the Error thrown
parseJsonArray(raw) ==
    IF ~Truthy(raw) THEN [ok |-> TRUE, v |-> Arr(<<>>)]
    ELSE LET parsed == JsonParse(raw.s) IN
         IF parsed.ok /\ parsed.v.t = "array" THEN parsed
         ELSE [ok |-> FALSE, v |-> Undef]

\* Index of the last column of the header named c (a later column overwrites)
ColumnIndex(header, c) ==
    CHOOSE i \in 1..Len(header) :
        /\ header[i] = c
        /\ \A j \in (i + 1)..Len(header) : header[j] # c

\* obj[column] of a row object; a column the header lacks reads undefined
Field(obj, column) == IF column \in DOMAIN obj.f THEN obj.f[column] ELSE Undef

\* mapRowsToObjects(rows): one object per data row, row[index] ?? ''.
\* row is a ghost: the number of the data row the object was made from.
mapRowsToObjects(rows) ==
    LET header == IF Len(rows) > 0 THEN rows[1] ELSE <<>>
        dataRows == IF Len(rows) > 0 THEN Tail(rows) ELSE <<>>
        columns == {header[i] : i \in 1..Len(header)}
    IN  [n \in 1..Len(dataRows) |->
            [row |-> n,
             f |-> [c \in columns |->
                      IF ColumnIndex(header, c) <= Len(dataRows[n])
                      THEN Str(dataRows[n][ColumnIndex(header, c)])
                      ELSE Str("")]]]

IsActiveRowS(obj) == parseBoolean(Field(obj, "is_active"))

\* one template record of normalizeTemplates' map
TemplateOfRowS(obj) ==
    [template_key |-> Field(obj, "template_key"),
     required_placeholders |-> parseJsonArray(Field(obj, "required_placeholders")).v,
     keep_intermediate_doc |-> parseBoolean(Field(obj, "keep_intermediate_doc")),
     is_active |-> TRUE,
     row |-> obj.row]

\* mutant: the is_active filter is left out
normalizeTemplatesNoFilter(rows) ==
    LET objs == mapRowsToObjects(rows) IN
    IF \E n \in 1..Len(objs) : ~parseJsonArray(Field(objs[n], "required_placeholders")).ok
    THEN [ok |-> FALSE, v |-> <<>>]
    ELSE [ok |-> TRUE, v |-> [n \in 1..Len(objs) |-> TemplateOfRowS(objs[n])]]

\* normalizeTemplates(rows): active rows only; an invalid required_placeholders
\* cell of an active row throws
normalizeTemplates(rows) ==
    LET active == SelectSeq(mapRowsToObjects(rows), IsActiveRowS) IN
    IF \E n \in 1..Len(active) : ~parseJsonArray(Field(active[n], "required_placeholders")).ok
    THEN [ok |-> FALSE, v |-> <<>>]
    ELSE [ok |-> TRUE, v |-> [n \in 1..Len(active) |-> TemplateOfRowS(active[n])]]

PackageOfRowS(obj) ==
    [package_key |-> Field(obj, "package_key"),
     exams |-> parseJsonArray(Field(obj, "exams")).v,
     default_template_key |-> Field(obj, "default_template_key"),
     is_active |-> TRUE,
     row |-> obj.row]

\* normalizeExamPackages(rows)
normalizeExamPackages(rows) ==
    LET active == SelectSeq(mapRowsToObjects(rows), IsActiveRowS) IN
    IF \E n \in 1..Len(active) : ~parseJsonArray(Field(active[n], "exams")).ok
    THEN [ok |-> FALSE, v |-> <<>>]
    ELSE [ok |-> TRUE, v |-> [n \in 1..Len(active) |-> PackageOfRowS(active[n])]]

\* the config object built by loadConfig from the two ranges read
BuildConfigS(values) ==
    LET t == normalizeTemplates(values.templates)
        p == normalizeExamPackages(values.exam_packages)
    IN  [ok |-> t.ok /\ p.ok, v |-> [templates |-> t.v, exam_packages |-> p.v]]

\* mutant: the cache is still served at the very instant it expires
CacheFreshInclusive(c, t) == c.data # Null /\ t <= c.stamp

\* loadConfig's cache test: configCache.data && Date.now() < configCache.expiresAt
CacheFreshS(c, t) == c.data # Null /\ t < c.stamp

\* configCache.expiresAt after a load that began at began and ended at ended
StampAfterLoadS(began, ended) == ended + CONFIG_TTL_MS

-----------------------------------------------------------------------------
(* Config loader: src/unnamed/part_000 *)

\* toBool(v)
toBool(v) ==
    IF v.t \in {"undefined", "null"} THEN FALSE
    ELSE ToLowerCase(Trim(v.s)) \in {"true", "1", "yes", "y", "si", "sí"}

\* safeJsonParse(str, fallback): whatever JSON.parse yields, array or not
safeJsonParse(str, fallback) ==
    IF str.t # "string" THEN fallback
    ELSE IF JsonParse(str.s).ok THEN JsonParse(str.s).v ELSE fallback

\* r.some((cell) => String(cell || "").trim() !== "")
HasContent(r) == \E i \in 1..Len(r) : Trim(r[i]) # ""

\* rowsToObjects(values): needs a header and a data row; blank rows are dropped;
\* a cell the row lacks reads undefined.  row is a ghost as in mapRowsToObjects.
rowsToObjects(values) ==
    IF Len(values) < 2 THEN <<>>
    ELSE LET headers == [i \in 1..Len(values[1]) |-> Trim(values[1][i])]
             columns == {headers[i] : i \in 1..Len(headers)}
             all == [n \in 1..(Len(values) - 1) |->
                        [row |-> n,
                         cells |-> values[n + 1],
                         f |-> [c \in columns |->
                                  IF ColumnIndex(headers, c) <= Len(values[n + 1])
                                  THEN Str(values[n + 1][ColumnIndex(headers, c)])
                                  ELSE Undef]]]
             kept(o) == HasContent(o.cells)
             rows == SelectSeq(all, kept)
         IN  [n \in 1..Len(rows) |-> [row |-> rows[n].row, f |-> rows[n].f]]

TemplateOfRowP(t) ==
    [template_key |-> Field(t, "template_key"),
     required_placeholders |-> safeJsonParse(Field(t, "required_placeholders"), Arr(<<>>)),
     keep_intermediate_doc |-> toBool(Field(t, "keep_intermediate_doc")),
     is_active |-> toBool(Field(t, "is_active")),
     row |-> t.row]

IsActiveRecord(r) == r.is_active

\* loadConfig's templates: map, then filter on is_active
templates(values) ==
    LET raw == rowsToObjects(values)
    IN  SelectSeq([n \in 1..Len(raw) |-> TemplateOfRowP(raw[n])], IsActiveRecord)

PackageOfRowP(p) ==
    [package_key |-> Field(p, "package_key"),
     exams |-> safeJsonParse(Field(p, "exams"), Arr(<<>>)),
     default_template_key |-> Field(p, "default_template_key"),
     is_active |-> toBool(Field(p, "is_active")),
     row |-> p.row]

\* loadConfig's exam_packages
exam_packages(values) ==
    LET raw == rowsToObjects(values)
    IN  SelectSeq([n \in 1..Len(raw) |-> PackageOfRowP(raw[n])], IsActiveRecord)

\* the data object built by loadConfig; byTemplateKey and byPackageKey are
\* derived from the two lists (see ByTemplateKey, ByPackageKey)
BuildConfigP(values) ==
    [ok |-> TRUE,
     v |-> [templates |-> templates(values.templates),
            exam_packages |-> exam_packages(values.exam_packages)]]

\* loadConfig's cache test: CONFIG_CACHE.data && now - CONFIG_CACHE.ts < ttlMs
CacheFreshP(c, t) == c.data # Null /\ t - c.stamp < CONFIG_TTL_MS

\* CONFIG_CACHE.ts after a load that began at began and ended at ended
StampAfterLoadP(began, ended) == began

\* Object.fromEntries(templates.map((t) => [t.template_key, t]))[key]:
\* the last record with the key, undefined when there is none
ByTemplateKey(config, key) ==
    LET ts == config.templates
        hits == {n \in 1..Len(ts) : ts[n].template_key = key}
    IN  IF hits = {} THEN Undef
        ELSE ts[CHOOSE n \in hits : \A m \in hits : m <= n]

ByPackageKey(config, key) ==
    LET ps == config.exam_packages
        hits == {n \in 1..Len(ps) : ps[n].package_key = key}
    IN  IF hits = {} THEN Undef
        ELSE ps[CHOOSE n \in hits : \A m \in hits : m <= n]

-----------------------------------------------------------------------------
(* Payload access and template resolution *)

\* payload.name for a fixed property name
Prop(v, name) ==
    IF v.t = "object" /\ name \in DOMAIN v.f THEN v.f[name] ELSE Undef

\* getValueByPath(obj, path) of src/server.js
RECURSIVE WalkS(_, _)
WalkS(current, segments) ==
    IF segments = <<>> THEN current
    ELSE IF current.t # "object" \/ Head(segments) \notin DOMAIN current.f THEN Undef
    ELSE WalkS(current.f[Head(segments)], Tail(segments))

getValueByPath(obj, path) == WalkS(obj, Split(path, "."))

\* acc[key] of getByPath's reducer: own properties of objects, length of strings
Member(acc, key) ==
    CASE acc.t = "object" -> IF key \in DOMAIN acc.f THEN acc.f[key] ELSE Undef
      [] acc.t = "string" -> IF key = "length" THEN Num(Len(acc.s)) ELSE Undef
      [] OTHER -> Undef

\* getByPath(obj, path) of src/unnamed/part_000
RECURSIVE WalkP(_, _)
WalkP(acc, keys) ==
    IF keys = <<>> THEN acc
    ELSE WalkP(IF Truthy(acc) THEN Member(acc, Head(keys)) ELSE Undef, Tail(keys))

getByPath(obj, path) == IF path = "" THEN Undef ELSE WalkP(obj, Split(path, "."))

\* value === undefined || value === null || value === ''
IsMissingValue(value) ==
    value.t \in {"undefined", "null"} \/ (value.t = "string" /\ value.s = "")

IsTemplate(x) == "template_key" \in DOMAIN x

\* Array.prototype.find on config.templates: the first match or undefined
FindTemplate(config, key) ==
    LET ts == config.templates
        hits == {n \in 1..Len(ts) : ts[n].template_key = key}
    IN  IF hits = {} THEN Undef
        ELSE ts[CHOOSE n \in hits : \A m \in hits : n <= m]

FindPackage(config, key) ==
    LET ps == config.exam_packages
        hits == {n \in 1..Len(ps) : ps[n].package_key = key}
    IN  IF hits = {} THEN Undef
        ELSE ps[CHOOSE n \in hits : \A m \in hits : n <= m]

\* resolveTemplate(config, payload) of src/server.js
resolveTemplate(config, payload) ==
    IF Truthy(Prop(payload, "template_key"))
    THEN FindTemplate(config, Prop(payload, "template_key"))
    ELSE IF ~Truthy(Prop(payload, "package_key")) THEN Null
    ELSE LET examPackage == FindPackage(config, Prop(payload, "package_key")) IN
         IF examPackage = Undef THEN Null
         ELSE FindTemplate(config, examPackage.default_template_key)

\* the template resolution of POST /v1/render in src/unnamed/part_000
ResolveTemplateP(config, payload) ==
    LET templateKey == Prop(payload, "template_key")
        packageKey == Prop(payload, "package_key")
        direct == IF Truthy(templateKey) THEN ByTemplateKey(config, templateKey) ELSE Null
    IN  IF ~IsTemplate(direct) /\ Truthy(packageKey)
        THEN LET pkg == ByPackageKey(config, packageKey) IN
             IF pkg # Undef /\ Truthy(pkg.default_template_key)
             THEN ByTemplateKey(config, pkg.default_template_key)
             ELSE direct
        ELSE direct

\* template.required_placeholders.filter(...) of src/server.js: the missing paths
RECURSIVE MissingS(_, _)
MissingS(payload, paths) ==
    IF paths = <<>> THEN <<>>
    ELSE (IF IsMissingValue(getValueByPath(payload, Head(paths).s))
          THEN <<Head(paths).s>> ELSE <<>>) \o MissingS(payload, Tail(paths))

\* const required = Array.isArray(...) ? ... : [] of renderGoogleDocToPdf
RequiredP(template) ==
    IF template.required_placeholders.t = "array"
    THEN template.required_placeholders.a ELSE <<>>

\* the missing list renderGoogleDocToPdf builds while mapping required
RECURSIVE MissingP(_, _)
MissingP(payload, paths) ==
    IF paths = <<>> THEN <<>>
    ELSE (IF IsMissingValue(getByPath(payload, Head(paths).s))
          THEN <<Head(paths).s>> ELSE <<>>) \o MissingP(payload, Tail(paths))

-----------------------------------------------------------------------------
(* The environment: spreadsheet contents and request payloads *)

TemplatesHeader == <<"template_key", "required_placeholders", "keep_intermediate_doc", "is_active">>
PackagesHeader == <<"package_key", "exams", "default_template_key", "is_active">>

\* The Sheets API leaves out the empty cells at the end of a row
RECURSIVE DropTrailingEmpty(_)
DropTrailingEmpty(row) ==
    IF Len(row) > 0 /\ row[Len(row)] = ""
    THEN DropTrailingEmpty(SubSeq(row, 1, Len(row) - 1))
    ELSE row

SheetOf(rp1, keep1, act1, act2, pact) ==
    [templates |-> <<TemplatesHeader,
                     DropTrailingEmpty(<<"T1", rp1, keep1, act1>>),
                     DropTrailingEmpty(<<"T2", "[\"f\"]", "FALSE", act2>>)>>,
     exam_packages |-> <<PackagesHeader,
                         DropTrailingEmpty(<<"P1", "", "T2", pact>>)>>]

Sheets ==
    {SheetOf(rp1, keep1, act1, act2, pact) :
        rp1 \in {"[\"f\", \"o.r\"]", ""}, keep1 \in {"TRUE", "FALSE"},
        act1 \in {"TRUE", "si"}, act2 \in {" Yes ", ""}, pact \in {"1", ""}}

PayloadOf(tk, pk, f, o, sell) ==
    Obj([k \in {"template_key", "package_key", "f", "o", "sell"} |->
            CASE k = "template_key" -> tk
              [] k = "package_key" -> pk
              [] k = "f" -> f
              [] k = "o" -> o
              [] k = "sell" -> sell])

SellTarget == Obj([k \in {"resource_type", "resource_id"} |->
                      IF k = "resource_type" THEN Str("deal") ELSE Num(1)])

Payloads ==
    {PayloadOf(tk, pk, f, o, sell) :
        tk \in {Undef, Str("T1"), Str("TX")}, pk \in {Undef, Str("P1")},
        f \in {Undef, Null, Str(""), Str("v")},
        o \in {Undef, Obj([k \in {"r"} |-> Str("v")])},
        sell \in {Undef, SellTarget}}

-----------------------------------------------------------------------------
(* State *)

NoTemplate == Undef
NoResponse == [status |-> 0]
NoError == [status |-> 0, message |-> ""]
NoLocals == [config |-> Null, template |-> NoTemplate, copied |-> FALSE,
             began |-> 0, hit |-> FALSE, polls |-> 0, wait |-> 0, err |-> NoError,
             requests |-> <<>>]
NoRequest == [kind |-> "none", payload |-> Undef, key |-> Undef]
NoPeer == [pc |-> "idle", began |-> 0]

\* process.env without RENDER_API_KEY
NoKey == [RENDER_API_KEY |-> ""]

\* configCache / CONFIG_CACHE at start-up.  stamp is expiresAt in server.js and
\* ts in part_000.  Ghosts: beganAt and filledAt are the times at which the load
\* that filled the cache began and ended, from holds the rows it read.
EmptyCache == [data |-> Null, stamp |-> 0, beganAt |-> 0, filledAt |-> 0, from |-> Null]

\* the process after start-up: nothing cached, no request in flight
Started ==
    /\ variant \in {"server", "part000"}
    /\ cache = EmptyCache
    /\ now = 0
    /\ ticks = 0
    /\ pc = "idle"
    /\ req = NoRequest
    /\ loc = NoLocals
    /\ log = <<>>
    /\ resp = NoResponse
    /\ peer = NoPeer
    /\ folders = {}

Init ==
    /\ Started
    /\ env = NoKey
    /\ sheet \in Sheets
    /\ ens = <<>>

Call(name, ok) == [call |-> name, ok |-> ok]

\* the message of the error an upstream call fails with
UpstreamMessage(name) == "upstream error: " \o name

\* res.status(status).json({ error: message })
ErrorResponse(status, message) == [status |-> status, error |-> message]

-----------------------------------------------------------------------------
(* loadConfig, both variants *)

BuildConfig(values) ==
    IF variant = "server" THEN BuildConfigS(values) ELSE BuildConfigP(values)

CacheFresh(c, t) ==
    IF variant = "server" THEN CacheFreshS(c, t) ELSE CacheFreshP(c, t)

StampAfterLoad(began, ended) ==
    IF variant = "server" THEN StampAfterLoadS(began, ended) ELSE StampAfterLoadP(began, ended)

\* throw: control passes to the route's catch block with the error
Throw(status, message) ==
    /\ pc' = "catch"
    /\ loc' = [loc EXCEPT !.err = [status |-> status, message |-> message]]

\* mutant: a request that carries no x-api-key header passes the gate
UnauthorizedIfWrong(key) ==
    env.RENDER_API_KEY # "" /\ key # Undef /\ key # Str(env.RENDER_API_KEY)

\* requireApiKey / authGuard: key is req.header('x-api-key'), undefined when
\* the request has no such header
Unauthorized(key) == env.RENDER_API_KEY # "" /\ key # Str(env.RENDER_API_KEY)

\* res.status(401).json(...) of the gate
Answer401 == ErrorResponse(401, IF variant = "server" THEN "Unauthorized" ELSE "unauthorized")

\* a request for a guarded route arrives with x-api-key header key: the gate
\* answers 401 or hands over to the route's handler
Arrive(kind, payload, key) ==
    /\ pc = "idle"
    /\ req' = [kind |-> kind, payload |-> payload, key |-> key]
    /\ IF Unauthorized(key)
       THEN resp' = Answer401 /\ pc' = "done"
       ELSE resp' = resp /\ pc' = IF variant = "server" THEN "load" ELSE "clients"
    /\ UNCHANGED <<env, peer, ens, folders, variant, sheet, cache, now, ticks, loc, log>>

\* a request arrives: GET /v1/config
StartConfig == Arrive("config", Undef, Undef)

\* a request arrives: POST /v1/render with body payload
StartRender == \E payload \in Payloads : Arrive("render", payload, Undef)

\* makeGoogleClients() of part_000: auth.authorize() succeeds or rejects
MakeClients ==
    /\ pc = "clients"
    /\ \E ok \in BOOLEAN :
        /\ log' = Append(log, Call("authorize", ok))
        /\ IF ok THEN pc' = "load" /\ loc' = loc
           ELSE Throw(0, UpstreamMessage("authorize"))
    /\ UNCHANGED <<env, peer, ens, folders, variant, sheet, cache, now, ticks, req, resp>>

\* loadConfig up to its await: serve the cache, or start the two reads
LoadConfigBegin ==
    /\ pc = "load"
    /\ IF CacheFresh(cache, now)
       THEN /\ loc' = [loc EXCEPT !.config = cache.data, !.hit = TRUE, !.began = now]
            /\ pc' = "loaded"
       ELSE /\ loc' = [loc EXCEPT !.began = now]
            /\ pc' = "reading"
    /\ UNCHANGED <<env, peer, ens, folders, variant, sheet, cache, now, ticks, req, log, resp>>

\* configCache / CONFIG_CACHE once a load that began at began has stored the
\* config built from the rows read
FilledCache(built, began) ==
    [data |-> built,
     stamp |-> StampAfterLoad(began, now),
     beganAt |-> began,
     filledAt |-> now,
     from |-> sheet]

\* mutant: a failed load empties the cache
LoadConfigEndClearing ==
    /\ pc = "reading"
    /\ \E okT \in BOOLEAN, okP \in BOOLEAN :
        /\ log' = log \o <<Call("sheets.templates", okT), Call("sheets.exam_packages", okP)>>
        /\ IF okT /\ okP
           THEN LET built == BuildConfig(sheet) IN
                IF built.ok
                THEN /\ cache' = FilledCache(built.v, loc.began)
                     /\ loc' = [loc EXCEPT !.config = built.v]
                     /\ pc' = "loaded"
                ELSE /\ Throw(0, "Invalid JSON")
                     /\ cache' = EmptyCache
           ELSE /\ \E failed \in {n \in {"sheets.templates", "sheets.exam_packages"} :
                                    (n = "sheets.templates" /\ ~okT)
                                    \/ (n = "sheets.exam_packages" /\ ~okP)} :
                      Throw(0, UpstreamMessage(failed))
                /\ cache' = EmptyCache
    /\ UNCHANGED <<env, peer, ens, folders, variant, sheet, now, ticks, req, resp>>

\* loadConfig after Promise.all: either read may fail; otherwise the rows are
\* normalised and the cache is replaced
LoadConfigEnd ==
    /\ pc = "reading"
    /\ \E okT \in BOOLEAN, okP \in BOOLEAN :
        /\ log' = log \o <<Call("sheets.templates", okT), Call("sheets.exam_packages", okP)>>
        /\ IF okT /\ okP
           THEN LET built == BuildConfig(sheet) IN
                IF built.ok
                THEN /\ cache' = FilledCache(built.v, loc.began)
                     /\ loc' = [loc EXCEPT !.config = built.v]
                     /\ pc' = "loaded"
                ELSE /\ Throw(0, "Invalid JSON")
                     /\ cache' = cache
           ELSE /\ \E failed \in {n \in {"sheets.templates", "sheets.exam_packages"} :
                                    (n = "sheets.templates" /\ ~okT)
                                    \/ (n = "sheets.exam_packages" /\ ~okP)} :
                      Throw(0, UpstreamMessage(failed))
                /\ cache' = cache
    /\ UNCHANGED <<env, peer, ens, folders, variant, sheet, now, ticks, req, resp>>

\* GET /v1/config: res.json(config)
RespondConfig ==
    /\ pc = "loaded"
    /\ req.kind = "config"
    /\ resp' = [status |-> 200,
                templates |-> loc.config.templates,
                exam_packages |-> loc.config.exam_packages]
    /\ pc' = "done"
    /\ UNCHANGED <<env, peer, ens, folders, variant, sheet, cache, now, ticks, req, loc, log>>

-----------------------------------------------------------------------------
(* POST /v1/render *)

\* Array.prototype.join
RECURSIVE Join(_, _)
Join(items, sep) ==
    IF items = <<>> THEN ""
    ELSE IF Len(items) = 1 THEN items[1]
    ELSE items[1] \o sep \o Join(Tail(items), sep)

Digits == <<"0", "1", "2", "3", "4", "5", "6", "7", "8", "9">>

\* Number.prototype.toString of a natural number
RECURSIVE NatToString(_)
NatToString(n) ==
    IF n < 10 THEN Digits[n + 1] ELSE NatToString(n \div 10) \o Digits[(n % 10) + 1]

\* String(value)
String(value) ==
    CASE value.t = "string" -> value.s
      [] value.t = "number" -> NatToString(value.n)
      [] value.t = "undefined" -> "undefined"
      [] value.t = "null" -> "null"
      [] value.t = "array" ->
            Join([i \in 1..Len(value.a) |->
                    IF value.a[i].t \in {"string", "number"}
                    THEN (IF value.a[i].t = "string" THEN value.a[i].s
                          ELSE NatToString(value.a[i].n))
                    ELSE ""], ",")
      [] OTHER -> "[object Object]"

\* one element of requestBody.requests of docs.documents.batchUpdate
ReplaceAllText(path, replaceText) ==
    [replaceAllText |->
        [containsText |-> [text |-> "{{" \o path \o "}}", matchCase |-> TRUE],
         replaceText |-> replaceText]]

\* template.required_placeholders.map(...) of src/server.js lines 262-270
RequestsS(template, payload) ==
    LET required == template.required_placeholders.a IN
    [i \in 1..Len(required) |->
        ReplaceAllText(required[i].s, String(getValueByPath(payload, required[i].s)))]

\* required.map(...) of renderGoogleDocToPdf, src/unnamed/part_000 lines 292-301
RequestsP(template, payload) ==
    LET required == RequiredP(template) IN
    [i \in 1..Len(required) |->
        LET value == getByPath(payload, required[i].s) IN
        ReplaceAllText(required[i].s,
                       IF value.t \in {"undefined", "null"} THEN "" ELSE String(value))]

\* the requests the handler passes to docs.documents.batchUpdate
Requests ==
    IF variant = "server" THEN RequestsS(loc.template, req.payload)
    ELSE RequestsP(loc.template, req.payload)

\* waitForFile's delays array: one attempt per entry
Delays == <<200, 350, 550, 800, 1200, 1600>>

\* sell.resource_type && sell.resource_id
WantsNote(payload) ==
    /\ Truthy(Prop(Prop(payload, "sell"), "resource_type"))
    /\ Truthy(Prop(Prop(payload, "sell"), "resource_id"))

\* server.js lines 231-244: resolve the template, validate the placeholders
ResolveAndValidate ==
    /\ pc = "loaded"
    /\ req.kind = "render"
    /\ variant = "server"
    /\ LET template == resolveTemplate(loc.config, req.payload) IN
       IF ~IsTemplate(template)
       THEN /\ resp' = ErrorResponse(400, "Unable to resolve template from template_key/package_key")
            /\ pc' = "done"
            /\ loc' = loc
       ELSE LET missing == MissingS(req.payload, template.required_placeholders.a) IN
            IF Len(missing) > 0
            THEN /\ resp' = [status |-> 400, error |-> "Missing required placeholders",
                             missing |-> missing]
                 /\ pc' = "done"
                 /\ loc' = [loc EXCEPT !.template = template]
            ELSE /\ resp' = resp
                 /\ pc' = "copy"
                 /\ loc' = [loc EXCEPT !.template = template]
    /\ UNCHANGED <<env, peer, ens, folders, variant, sheet, cache, now, ticks, req, log>>

\* part_000 lines 481-490: resolve the template
Resolve ==
    /\ pc = "loaded"
    /\ req.kind = "render"
    /\ variant = "part000"
    /\ LET template == ResolveTemplateP(loc.config, req.payload) IN
       IF ~IsTemplate(template)
       THEN /\ resp' = ErrorResponse(400, "template not found (template_key / package_key)")
            /\ pc' = "done"
            /\ loc' = loc
       ELSE /\ resp' = resp
            /\ pc' = "copy"
            /\ loc' = [loc EXCEPT !.template = template]
    /\ UNCHANGED <<env, peer, ens, folders, variant, sheet, cache, now, ticks, req, log>>

\* drive.files.copy
Copy ==
    /\ pc = "copy"
    /\ \E ok \in BOOLEAN :
        /\ log' = Append(log, Call("copy", ok))
        /\ IF ok
           THEN /\ loc' = [loc EXCEPT !.copied = TRUE, !.wait = 1, !.polls = 0]
                /\ pc' = IF variant = "server" THEN "batch" ELSE "wait"
           ELSE Throw(0, UpstreamMessage("copy"))
    /\ UNCHANGED <<env, peer, ens, folders, variant, sheet, cache, now, ticks, req, resp>>

\* mutant: the loop makes one attempt more than there are delays
PollOnceMore ==
    /\ pc = "wait"
    /\ \E outcome \in {"ok", "notfound", "error"} :
        CASE outcome = "ok" ->
                /\ log' = Append(log, Call("get", TRUE))
                /\ loc' = [loc EXCEPT !.polls = 0]
                /\ pc' = IF loc.wait = 1 THEN "placeholders" ELSE "export"
          [] outcome = "notfound" ->
                IF loc.polls < Len(Delays)
                THEN /\ loc' = [loc EXCEPT !.polls = loc.polls + 1]
                     /\ pc' = pc
                     /\ log' = log
                ELSE /\ log' = Append(log, Call("get", FALSE))
                     /\ Throw(0, "File not found (after retries)")
          [] outcome = "error" ->
                /\ log' = Append(log, Call("get", FALSE))
                /\ Throw(0, UpstreamMessage("get"))
    /\ UNCHANGED <<env, peer, ens, folders, variant, sheet, cache, now, ticks, req, resp>>

\* one iteration of waitForFile's loop: drive.files.get succeeds, fails with
\* not-found (retried until the delays run out), or fails otherwise (rethrown).
\* The log gets one "get" entry when the loop ends; retries count in loc.polls.
Poll ==
    /\ pc = "wait"
    /\ \E outcome \in {"ok", "notfound", "error"} :
        CASE outcome = "ok" ->
                /\ log' = Append(log, Call("get", TRUE))
                /\ loc' = [loc EXCEPT !.polls = 0]
                /\ pc' = IF loc.wait = 1 THEN "placeholders" ELSE "export"
          [] outcome = "notfound" ->
                IF loc.polls + 1 < Len(Delays)
                THEN /\ loc' = [loc EXCEPT !.polls = loc.polls + 1]
                     /\ pc' = pc
                     /\ log' = log
                ELSE /\ log' = Append(log, Call("get", FALSE))
                     /\ Throw(0, "File not found (after retries)")
          [] outcome = "error" ->
                /\ log' = Append(log, Call("get", FALSE))
                /\ Throw(0, UpstreamMessage("get"))
    /\ UNCHANGED <<env, peer, ens, folders, variant, sheet, cache, now, ticks, req, resp>>

\* part_000 lines 288-318: build the replace requests, collect the missing paths
Placeholders ==
    /\ pc = "placeholders"
    /\ LET required == RequiredP(loc.template)
           missing == MissingP(req.payload, required)
       IN  IF Len(missing) > 0
           THEN IF ~loc.template.keep_intermediate_doc
                THEN pc' = "delmissing" /\ loc' = loc
                ELSE Throw(400, "Missing required placeholders: " \o Join(missing, ", "))
           ELSE /\ pc' = IF Len(required) > 0 THEN "batch" ELSE "wait"
                /\ loc' = [loc EXCEPT !.wait = 2]
    /\ UNCHANGED <<env, peer, ens, folders, variant, sheet, cache, now, ticks, req, log, resp>>

\* part_000 lines 303-310: delete the copy (errors swallowed), then throw 400
DeleteOnMissing ==
    /\ pc = "delmissing"
    /\ \E ok \in BOOLEAN : log' = Append(log, Call("delete", ok))
    /\ Throw(400, "Missing required placeholders: "
                    \o Join(MissingP(req.payload, RequiredP(loc.template)), ", "))
    /\ UNCHANGED <<env, peer, ens, folders, variant, sheet, cache, now, ticks, req, resp>>

\* mutant: a failed batchUpdate is tried once more
BatchUpdateRetrying ==
    /\ pc = "batch"
    /\ \E ok \in BOOLEAN :
        /\ log' = Append(log, Call("batchUpdate", ok))
        /\ IF ok
           THEN /\ pc' = IF variant = "server" THEN "export" ELSE "wait"
                /\ loc' = [loc EXCEPT !.wait = 2]
           ELSE IF \E i \in 1..Len(log) : log[i].call = "batchUpdate"
                THEN Throw(0, UpstreamMessage("batchUpdate"))
                ELSE pc' = pc /\ loc' = loc
    /\ UNCHANGED <<env, peer, ens, folders, variant, sheet, cache, now, ticks, req, resp>>

\* docs.documents.batchUpdate; loc.requests keeps the requests it was given
BatchUpdate ==
    /\ pc = "batch"
    /\ \E ok \in BOOLEAN :
        /\ log' = Append(log, Call("batchUpdate", ok))
        /\ IF ok
           THEN /\ pc' = IF variant = "server" THEN "export" ELSE "wait"
                /\ loc' = [loc EXCEPT !.wait = 2, !.requests = Requests]
           ELSE /\ pc' = "catch"
                /\ loc' = [loc EXCEPT !.requests = Requests,
                                      !.err = [status |-> 0,
                                               message |-> UpstreamMessage("batchUpdate")]]
    /\ UNCHANGED <<env, peer, ens, folders, variant, sheet, cache, now, ticks, req, resp>>

\* mutant: a failed export is not noticed and the upload goes ahead
ExportIgnoringFailure ==
    /\ pc = "export"
    /\ \E ok \in BOOLEAN : log' = Append(log, Call("export", ok))
    /\ pc' = "upload"
    /\ UNCHANGED <<env, peer, ens, folders, variant, sheet, cache, now, ticks, req, loc, resp>>

\* drive.files.export
Export ==
    /\ pc = "export"
    /\ \E ok \in BOOLEAN :
        /\ log' = Append(log, Call("export", ok))
        /\ IF ok THEN pc' = "upload" /\ loc' = loc
           ELSE Throw(0, UpstreamMessage("export"))
    /\ UNCHANGED <<env, peer, ens, folders, variant, sheet, cache, now, ticks, req, resp>>

\* mutant: the copy is never deleted after the upload
UploadThenNote ==
    /\ pc = "upload"
    /\ \E ok \in BOOLEAN :
        /\ log' = Append(log, Call("upload", ok))
        /\ IF ok THEN pc' = "note" /\ loc' = loc
           ELSE Throw(0, UpstreamMessage("upload"))
    /\ UNCHANGED <<env, peer, ens, folders, variant, sheet, cache, now, ticks, req, resp>>

\* drive.files.create of the PDF; then the delete of the copy is due unless
\* the template keeps it
Upload ==
    /\ pc = "upload"
    /\ \E ok \in BOOLEAN :
        /\ log' = Append(log, Call("upload", ok))
        /\ IF ok
           THEN /\ pc' = IF ~loc.template.keep_intermediate_doc /\ loc.copied
                         THEN "delete" ELSE "note"
                /\ loc' = loc
           ELSE Throw(0, UpstreamMessage("upload"))
    /\ UNCHANGED <<env, peer, ens, folders, variant, sheet, cache, now, ticks, req, resp>>

\* drive.files.delete of the copy after the upload.  server.js awaits it
\* unguarded and then clears copiedDocId; part_000 swallows its failure.
Delete ==
    /\ pc = "delete"
    /\ \E ok \in BOOLEAN :
        /\ log' = Append(log, Call("delete", ok))
        /\ IF variant = "server"
           THEN IF ok THEN pc' = "note" /\ loc' = [loc EXCEPT !.copied = FALSE]
                ELSE Throw(0, UpstreamMessage("delete"))
           ELSE pc' = "note" /\ loc' = loc
    /\ UNCHANGED <<env, peer, ens, folders, variant, sheet, cache, now, ticks, req, resp>>

\* createSellNote / sellCreateNote and the 200 response
Note ==
    /\ pc = "note"
    /\ IF ~WantsNote(req.payload)
       THEN /\ resp' = [status |-> 200, pdf |-> TRUE, note |-> FALSE]
            /\ pc' = "done"
            /\ UNCHANGED <<loc, log>>
       ELSE \E ok \in BOOLEAN :
            /\ log' = Append(log, Call("note", ok))
            /\ IF ok
               THEN /\ resp' = [status |-> 200, pdf |-> TRUE, note |-> TRUE]
                    /\ pc' = "done"
                    /\ loc' = loc
               ELSE /\ Throw(0, IF variant = "server"
                                THEN "Sell note creation failed: " \o UpstreamMessage("note")
                                ELSE "Sell note error: " \o UpstreamMessage("note"))
                    /\ resp' = resp
    /\ UNCHANGED <<env, peer, ens, folders, variant, sheet, cache, now, ticks, req>>

\* mutant: an error without a status code is answered 400
CatchDefault400 ==
    /\ pc = "catch"
    /\ IF variant = "server" /\ req.kind = "render" /\ loc.copied
       THEN \E ok \in BOOLEAN : log' = Append(log, Call("delete", ok))
       ELSE log' = log
    /\ resp' = ErrorResponse(IF loc.err.status # 0 THEN loc.err.status ELSE 400,
                             loc.err.message)
    /\ pc' = "done"
    /\ UNCHANGED <<env, peer, ens, folders, variant, sheet, cache, now, ticks, req, loc>>

\* the catch block of the route.  server.js POST /v1/render deletes the copy
\* if copiedDocId is set (errors swallowed) and answers 500; part_000 answers
\* e.statusCode || 500; GET /v1/config answers 500.
Catch ==
    /\ pc = "catch"
    /\ IF variant = "server" /\ req.kind = "render" /\ loc.copied
       THEN \E ok \in BOOLEAN : log' = Append(log, Call("delete", ok))
       ELSE log' = log
    /\ resp' = ErrorResponse(IF variant = "part000" /\ req.kind = "render" /\ loc.err.status # 0
                             THEN loc.err.status ELSE 500,
                             loc.err.message)
    /\ pc' = "done"
    /\ UNCHANGED <<env, peer, ens, folders, variant, sheet, cache, now, ticks, req, loc>>

\* the response is sent; the next request may arrive
Finish ==
    /\ pc = "done"
    /\ pc' = "idle"
    /\ req' = NoRequest
    /\ loc' = NoLocals
    /\ log' = <<>>
    /\ resp' = NoResponse
    /\ UNCHANGED <<env, peer, ens, folders, variant, sheet, cache, now, ticks>>

Next ==
    \/ StartConfig \/ StartRender \/ MakeClients
    \/ LoadConfigBegin \/ LoadConfigEnd \/ RespondConfig
    \/ ResolveAndValidate \/ Resolve \/ Copy \/ Poll \/ Placeholders \/ DeleteOnMissing
    \/ BatchUpdate \/ Export \/ Upload \/ Delete \/ Note \/ Catch \/ Finish

Spec == Init /\ [][Next]_vars

-----------------------------------------------------------------------------
(* The config cache over time: GET /v1/config requests while the clock       *)
(* advances and the spreadsheet is edited                                    *)

\* spreadsheets of the cache specification; the required_placeholders cell of
\* row T1 is empty, is not valid JSON (in an active and in an inactive row),
\* or is valid JSON but not an array
CacheSheets ==
    {SheetOf(rp1, "FALSE", "TRUE", " Yes ", "1") : rp1 \in {"", "[\"f\"", "{}"}}
    \cup {SheetOf("[\"f\"", "FALSE", "", " Yes ", "1")}

\* clock advances, in ms
TickSteps == {1, CONFIG_TTL_MS - 1}

\* time passes
Tick ==
    /\ ticks < MaxTicks
    /\ \E d \in TickSteps : now' = now + d
    /\ ticks' = ticks + 1
    /\ UNCHANGED <<env, peer, ens, folders, variant, sheet, cache, pc, req, loc, log, resp>>

\* somebody edits the spreadsheet
SheetEdit ==
    /\ \E other \in CacheSheets \ {sheet} : sheet' = other
    /\ UNCHANGED <<env, peer, ens, folders, variant, cache, now, ticks, pc, req, loc, log, resp>>

InitCache ==
    /\ Started
    /\ env = NoKey
    /\ sheet \in CacheSheets
    /\ ens = <<>>

NextCache ==
    \/ StartConfig \/ MakeClients \/ LoadConfigBegin \/ LoadConfigEnd
    \/ RespondConfig \/ Catch \/ Finish \/ Tick \/ SheetEdit

SpecCache == InitCache /\ [][NextCache]_vars

-----------------------------------------------------------------------------
(* Two loadConfig calls in flight: a second request calls loadConfig while   *)
(* the first awaits its reads                                                *)

\* the other request calls loadConfig, finds the cache empty or expired and
\* starts its reads (a call that finds the cache fresh returns at once)
PeerBegin ==
    /\ peer.pc = "idle"
    /\ ~CacheFresh(cache, now)
    /\ peer' = [pc |-> "reading", began |-> now]
    /\ UNCHANGED <<env, ens, folders, variant, sheet, cache, now, ticks, pc, req, loc, log, resp>>

\* the reads of the other request complete: a failure leaves the cache, a
\* success stores the config built from the rows read
PeerEnd ==
    /\ peer.pc = "reading"
    /\ \E ok \in BOOLEAN :
        cache' = IF ok /\ BuildConfig(sheet).ok
                 THEN FilledCache(BuildConfig(sheet).v, peer.began)
                 ELSE cache
    /\ peer' = NoPeer
    /\ UNCHANGED <<env, ens, folders, variant, sheet, now, ticks, pc, req, loc, log, resp>>

NextRace == NextCache \/ PeerBegin \/ PeerEnd

SpecRace == InitCache /\ [][NextRace]_vars

-----------------------------------------------------------------------------
(* POST /v1/drive/folder/ensure (src/unnamed/part_000 only) *)

\* how many ensure requests may be in flight at once
MaxEnsure == 2

\* the character class [a-zA-Z0-9_-]
IdChars ==
    {"a", "b", "c", "d", "e", "f", "g", "h", "i", "j", "k", "l", "m", "n", "o", "p", "q",
     "r", "s", "t", "u", "v", "w", "x", "y", "z", "A", "B", "C", "D", "E", "F", "G", "H",
     "I", "J", "K", "L", "M", "N", "O", "P", "Q", "R", "S", "T", "U", "V", "W", "X", "Y",
     "Z", "0", "1", "2", "3", "4", "5", "6", "7", "8", "9", "_", "-"}

\* the longest run of [a-zA-Z0-9_-] that starts at position i
RECURSIVE IdRun(_, _)
IdRun(s, i) ==
    IF i <= Len(s) /\ CharAt(s, i) \in IdChars THEN CharAt(s, i) \o IdRun(s, i + 1) ELSE ""

StartsWithAt(s, i, m) == i + Len(m) - 1 <= Len(s) /\ SubSeq(s, i, i + Len(m) - 1) = m

\* s.match(/<marker>([a-zA-Z0-9_-]+)/) for a marker of the set, searched from
\* position i: the captured group of the leftmost match, "" when none matches
RECURSIVE MatchId(_, _, _)
MatchId(s, markers, i) ==
    IF i > Len(s) THEN ""
    ELSE LET hits == {m \in markers : StartsWithAt(s, i, m) /\ IdRun(s, i + Len(m)) # ""} IN
         IF hits # {} THEN IdRun(s, i + Len(CHOOSE m \in hits : TRUE))
         ELSE MatchId(s, markers, i + 1)

\* normalizeDriveId(input)
normalizeDriveId(input) ==
    IF ~Truthy(input) THEN ""
    ELSE LET s == Trim(String(input))
             m1 == MatchId(s, {"/folders/"}, 1)
             m2 == MatchId(s, {"/d/"}, 1)
             m3 == MatchId(s, {"?id=", "&id="}, 1)
         IN  IF m1 # "" THEN m1 ELSE IF m2 # "" THEN m2 ELSE IF m3 # "" THEN m3 ELSE s

\* an ensure handler with no request
IdleHandler ==
    [pc |-> "idle", payload |-> Undef, key |-> Undef, calls |-> <<>>, resp |-> NoResponse]

EnsurePayloadOf(root, deal) ==
    Obj([k \in {"drive_root_folder_id", "deal_id"} |->
            IF k = "drive_root_folder_id" THEN root ELSE deal])

EnsurePayloads ==
    {EnsurePayloadOf(root, deal) :
        root \in {Undef, Str(" "), Str("R"),
                  Str(" https://drive.google.com/drive/folders/R?usp=x ")},
        deal \in {Undef, Num(7)}}

\* ensureDealFolder's rootId and folderName for a request body
RootIdOf(payload) == normalizeDriveId(Prop(payload, "drive_root_folder_id"))
FolderNameOf(payload) == "Deal_" \o String(Prop(payload, "deal_id"))

\* the folders drive.files.list finds: under the root, with the name
Found(payload) ==
    {f \in folders : f.root = RootIdOf(payload) /\ f.name = FolderNameOf(payload)}

\* res.status(e.statusCode || 500).json({ error: e.message }) of the ensure route
EnsureFails(h, status, message, calls) ==
    ens' = [ens EXCEPT ![h] = [@ EXCEPT !.pc = "done", !.calls = calls,
                                        !.resp = ErrorResponse(status, message)]]

\* res.json(out)
EnsureAnswers(h, folder, calls) ==
    ens' = [ens EXCEPT ![h] = [@ EXCEPT !.pc = "done", !.calls = calls,
                                        !.resp = [status |-> 200, folder_id |-> folder.id,
                                                  name |-> folder.name]]]

\* a request for POST /v1/drive/folder/ensure arrives at handler h
EnsureArrive(h, payload, key) ==
    /\ variant = "part000"
    /\ ens[h].pc = "idle"
    /\ ens' = [ens EXCEPT ![h] =
                 [pc |-> IF Unauthorized(key) THEN "done" ELSE "clients",
                  payload |-> payload, key |-> key, calls |-> <<>>,
                  resp |-> IF Unauthorized(key) THEN Answer401 ELSE NoResponse]]
    /\ UNCHANGED <<env, peer, folders, variant, sheet, cache, now, ticks, pc, req, loc, log, resp>>

StartEnsure == \E h \in DOMAIN ens, payload \in EnsurePayloads : EnsureArrive(h, payload, Undef)

\* mutant: the deal id is not looked at before drive.files.get is called
EnsureAuthorizedNoDealCheck ==
    \E h \in DOMAIN ens, ok \in BOOLEAN :
        /\ ens[h].pc = "clients"
        /\ LET calls == Append(ens[h].calls, Call("authorize", ok)) IN
           IF ~ok THEN EnsureFails(h, 500, UpstreamMessage("authorize"), calls)
           ELSE IF RootIdOf(ens[h].payload) = ""
                THEN EnsureFails(h, 400, "drive_root_folder_id is required", calls)
           ELSE ens' = [ens EXCEPT ![h] = [@ EXCEPT !.pc = "get", !.calls = calls]]
        /\ UNCHANGED <<env, peer, folders, variant, sheet, cache, now, ticks, pc, req, loc, log, resp>>

\* makeGoogleClients() completes; ensureDealFolder runs up to its first await:
\* it rejects an empty root id or a missing deal id, else calls drive.files.get
EnsureAuthorized ==
    \E h \in DOMAIN ens, ok \in BOOLEAN :
        /\ ens[h].pc = "clients"
        /\ LET calls == Append(ens[h].calls, Call("authorize", ok)) IN
           IF ~ok THEN EnsureFails(h, 500, UpstreamMessage("authorize"), calls)
           ELSE IF RootIdOf(ens[h].payload) = ""
                THEN EnsureFails(h, 400, "drive_root_folder_id is required", calls)
           ELSE IF ~Truthy(Prop(ens[h].payload, "deal_id"))
                THEN EnsureFails(h, 400, "deal_id is required", calls)
           ELSE ens' = [ens EXCEPT ![h] = [@ EXCEPT !.pc = "get", !.calls = calls]]
        /\ UNCHANGED <<env, peer, folders, variant, sheet, cache, now, ticks, pc, req, loc, log, resp>>

\* drive.files.get of the root completes; drive.files.list is called
EnsureGot ==
    \E h \in DOMAIN ens, ok \in BOOLEAN :
        /\ ens[h].pc = "get"
        /\ LET calls == Append(ens[h].calls, Call("get", ok)) IN
           IF ~ok THEN EnsureFails(h, 500, UpstreamMessage("get"), calls)
           ELSE ens' = [ens EXCEPT ![h] = [@ EXCEPT !.pc = "list", !.calls = calls]]
        /\ UNCHANGED <<env, peer, folders, variant, sheet, cache, now, ticks, pc, req, loc, log, resp>>

\* drive.files.list completes with the folders that exist at that moment: the
\* first one is returned, or drive.files.create is called
EnsureListed ==
    \E h \in DOMAIN ens, ok \in BOOLEAN :
        /\ ens[h].pc = "list"
        /\ LET calls == Append(ens[h].calls, Call("list", ok)) IN
           IF ~ok THEN EnsureFails(h, 500, UpstreamMessage("list"), calls)
           ELSE IF Found(ens[h].payload) # {}
                THEN \E f \in Found(ens[h].payload) : EnsureAnswers(h, f, calls)
           ELSE ens' = [ens EXCEPT ![h] = [@ EXCEPT !.pc = "create", !.calls = calls]]
        /\ UNCHANGED <<env, peer, folders, variant, sheet, cache, now, ticks, pc, req, loc, log, resp>>

\* drive.files.create completes: Drive holds one more folder
EnsureCreated ==
    \E h \in DOMAIN ens, ok \in BOOLEAN :
        /\ ens[h].pc = "create"
        /\ LET calls == Append(ens[h].calls, Call("create", ok))
               created == [root |-> RootIdOf(ens[h].payload),
                           name |-> FolderNameOf(ens[h].payload),
                           id |-> Cardinality(folders) + 1]
           IN  IF ~ok
               THEN /\ EnsureFails(h, 500, UpstreamMessage("create"), calls)
                    /\ folders' = folders
               ELSE /\ EnsureAnswers(h, created, calls)
                    /\ folders' = folders \cup {created}
        /\ UNCHANGED <<env, peer, variant, sheet, cache, now, ticks, pc, req, loc, log, resp>>

\* the response is sent; the handler takes the next request
EnsureFinish ==
    \E h \in DOMAIN ens :
        /\ ens[h].pc = "done"
        /\ ens' = [ens EXCEPT ![h] = IdleHandler]
        /\ UNCHANGED <<env, peer, folders, variant, sheet, cache, now, ticks, pc, req, loc, log, resp>>

InitEnsure ==
    /\ Started
    /\ variant = "part000"
    /\ env = NoKey
    /\ sheet \in {SheetOf("", "FALSE", "TRUE", " Yes ", "1")}
    /\ ens = [h \in 1..MaxEnsure |-> IdleHandler]

NextEnsure ==
    \/ StartEnsure \/ EnsureAuthorized \/ EnsureGot \/ EnsureListed
    \/ EnsureCreated \/ EnsureFinish

SpecEnsure == InitEnsure /\ [][NextEnsure]_vars

-----------------------------------------------------------------------------
(* The name of the PDF: buildPdfFileName (server.js), buildFilename (part_000) *)

\* the date of the request as YYYYMMDD
Today == "20261101"

\* String.prototype.endsWith
EndsWith(s, suffix) ==
    Len(s) >= Len(suffix) /\ SubSeq(s, Len(s) - Len(suffix) + 1, Len(s)) = suffix

\* the position of the first character c of s at or after position i, 0 if none
RECURSIVE IndexFrom(_, _, _)
IndexFrom(s, c, i) ==
    IF i > Len(s) THEN 0 ELSE IF CharAt(s, i) = c THEN i ELSE IndexFrom(s, c, i + 1)

\* .replace(/{YYYYMMDD}/g, dateToken)
RECURSIVE ReplaceDate(_, _)
ReplaceDate(s, dateToken) ==
    IF s = "" THEN ""
    ELSE IF StartsWithAt(s, 1, "{YYYYMMDD}")
         THEN dateToken \o ReplaceDate(SubSeq(s, 11, Len(s)), dateToken)
         ELSE CharAt(s, 1) \o ReplaceDate(SubSeq(s, 2, Len(s)), dateToken)

\* the replacer of server.js: value == null ? '' : String(value)
TokenValueS(payload, tokenPath) ==
    LET value == getValueByPath(payload, tokenPath) IN
    IF value.t \in {"undefined", "null"} THEN "" ELSE String(value)

\* the replacer of part_000
TokenValueP(payload, token, ymd) ==
    LET t == Trim(token) IN
    IF t = "YYYYMMDD" THEN ymd
    ELSE LET val == getByPath(payload, t) IN
         IF IsMissingValue(val) THEN "NA" ELSE String(val)

\* .replace(/{([^}]+)}/g, replacer): every brace pair with at least one
\* character between the braces, leftmost first, is replaced by its value
RECURSIVE ExpandTokens(_, _, _, _)
ExpandTokens(s, payload, ymd, how) ==
    IF s = "" THEN ""
    ELSE LET close == IF CharAt(s, 1) = "{" THEN IndexFrom(s, "}", 2) ELSE 0 IN
         IF close > 2
         THEN (IF how = "server" THEN TokenValueS(payload, SubSeq(s, 2, close - 1))
               ELSE TokenValueP(payload, SubSeq(s, 2, close - 1), ymd))
              \o ExpandTokens(SubSeq(s, close + 1, Len(s)), payload, ymd, how)
         ELSE CharAt(s, 1) \o ExpandTokens(SubSeq(s, 2, Len(s)), payload, ymd, how)

\* .replace(/[\\/]/g, '_')
RECURSIVE Sanitize(_)
Sanitize(s) ==
    IF s = "" THEN ""
    ELSE (IF CharAt(s, 1) \in {"/", "\\"} THEN "_" ELSE CharAt(s, 1))
         \o Sanitize(SubSeq(s, 2, Len(s)))

\* base.toLowerCase().endsWith('.pdf') ? base : `${base}.pdf`
WithPdfSuffix(base) == IF EndsWith(ToLowerCase(base), ".pdf") THEN base ELSE base \o ".pdf"

\* mutant: the separators are replaced before the payload values are put in
FinalNameUnsanitized(pattern, payload) ==
    LET source == IF Truthy(pattern) THEN pattern.s ELSE "documento_{YYYYMMDD}"
        base == Trim(ExpandTokens(Sanitize(ReplaceDate(source, Today)), payload, Today, "server"))
    IN  IF base # "" THEN base ELSE "documento_" \o Today

\* finalName of buildPdfFileName
FinalNameS(pattern, payload) ==
    LET source == IF Truthy(pattern) THEN pattern.s ELSE "documento_{YYYYMMDD}"
        base == Trim(Sanitize(ExpandTokens(ReplaceDate(source, Today), payload, Today, "server")))
    IN  IF base # "" THEN base ELSE "documento_" \o Today

\* buildPdfFileName(pattern, payload) of src/server.js
buildPdfFileName(pattern, payload) == WithPdfSuffix(FinalNameS(pattern, payload))

\* base of buildFilename
BaseP(pattern, payload) ==
    LET source == IF Truthy(pattern) THEN String(pattern) ELSE "output_{YYYYMMDD}_{object.run}"
    IN  Sanitize(ExpandTokens(source, payload, Today, "part000"))

\* buildFilename(pattern, payload) of src/unnamed/part_000
buildFilename(pattern, payload) == WithPdfSuffix(BaseP(pattern, payload))

\* template.output_filename_pattern: a cell of the sheet, undefined when the
\* row or the header lacks it
Patterns ==
    {Undef, Str(""), Str(" "), Str("{p}"), Str("a/b_{p}"), Str("{YYYYMMDD}_{p}.pdf"),
     Str("{ p }.PdF"), Str("x.PDF"), Str("{}{p"), Str("a\\b {object.run}"),
     Str("{p}.pdf.Pdf"), Str(" {q}/")}

NamePayloadOf(p, object) ==
    Obj([k \in {"p", "object"} |-> IF k = "p" THEN p ELSE object])

NamePayloads ==
    {NamePayloadOf(p, object) :
        p \in {Undef, Null, Str(""), Str("c/d"), Str("e\\f"), Str("x.PDF"), Num(70)},
        object \in {Undef, Obj([k \in {"run"} |-> Str("r/1")])}}

\* a template with a filename pattern
NameTemplate(pattern) ==
    [template_key |-> Str("T1"), required_placeholders |-> Arr(<<>>),
     keep_intermediate_doc |-> FALSE, is_active |-> TRUE, row |-> 1,
     output_filename_pattern |-> pattern]

\* the handler is about to name the PDF
InitName ==
    /\ variant \in {"server", "part000"}
    /\ env = NoKey
    /\ sheet \in {SheetOf("", "FALSE", "TRUE", " Yes ", "1")}
    /\ cache = EmptyCache
    /\ now = 0
    /\ ticks = 0
    /\ pc = "name"
    /\ \E payload \in NamePayloads : req = [kind |-> "render", payload |-> payload, key |-> Undef]
    /\ \E pattern \in Patterns : loc = [NoLocals EXCEPT !.template = NameTemplate(pattern)]
    /\ log = <<>>
    /\ resp = NoResponse
    /\ peer = NoPeer
    /\ ens = <<>>
    /\ folders = {}

\* const pdfName = buildPdfFileName(...) / const filename = buildFilename(...);
\* base is the name before the suffix is settled
BuildName ==
    /\ pc = "name"
    /\ resp' = [status |-> 0,
                base |-> IF variant = "server"
                         THEN FinalNameS(loc.template.output_filename_pattern, req.payload)
                         ELSE BaseP(loc.template.output_filename_pattern, req.payload),
                name |-> IF variant = "server"
                         THEN buildPdfFileName(loc.template.output_filename_pattern, req.payload)
                         ELSE buildFilename(loc.template.output_filename_pattern, req.payload)]
    /\ pc' = "named"
    /\ UNCHANGED <<env, peer, ens, folders, variant, sheet, cache, now, ticks, req, loc, log>>

NextName == BuildName

SpecName == InitName /\ [][NextName]_vars

-----------------------------------------------------------------------------
(* The API key gate: every route, with and without RENDER_API_KEY, with and  *)
(* without the x-api-key header                                              *)

\* req.header('x-api-key'): absent, the configured key, another key
Headers == {Undef, Str("k"), Str("x")}

\* GET /health: no gate, no upstream call
Health ==
    /\ pc = "idle"
    /\ \E key \in Headers : req' = [kind |-> "health", payload |-> Undef, key |-> key]
    /\ resp' = [status |-> 200, ok |-> TRUE]
    /\ pc' = "done"
    /\ UNCHANGED <<env, peer, ens, folders, variant, sheet, cache, now, ticks, loc, log>>

GatePayloads ==
    {PayloadOf(Str("T1"), Undef, f, Obj([k \in {"r"} |-> Str("v")]), SellTarget) :
        f \in {Undef, Str("v")}}

KeyedConfig == \E key \in Headers : Arrive("config", Undef, key)

KeyedRender == \E payload \in GatePayloads, key \in Headers : Arrive("render", payload, key)

KeyedEnsure ==
    \E h \in DOMAIN ens, key \in Headers :
        EnsureArrive(h, EnsurePayloadOf(Str("R"), Num(7)), key)

InitGate ==
    /\ Started
    /\ env \in {NoKey, [RENDER_API_KEY |-> "k"]}
    /\ sheet \in {SheetOf("[\"f\", \"o.r\"]", "FALSE", "TRUE", " Yes ", "1")}
    /\ ens = <<IdleHandler>>

NextGate ==
    \/ Health \/ KeyedConfig \/ KeyedRender \/ KeyedEnsure
    \/ MakeClients \/ LoadConfigBegin \/ LoadConfigEnd \/ RespondConfig
    \/ ResolveAndValidate \/ Resolve \/ Copy \/ Poll \/ Placeholders \/ DeleteOnMissing
    \/ BatchUpdate \/ Export \/ Upload \/ Delete \/ Note \/ Catch \/ Finish
    \/ EnsureAuthorized \/ EnsureGot \/ EnsureListed \/ EnsureCreated \/ EnsureFinish

SpecGate == InitGate /\ [][NextGate]_vars

-----------------------------------------------------------------------------
(* waitForFile within the render pipeline of part_000: every drive.files.get *)
(* call settles, so the loop takes its next step                             *)

WaitRender == \E payload \in GatePayloads : Arrive("render", payload, Undef)

InitWait ==
    /\ Started
    /\ variant = "part000"
    /\ env = NoKey
    /\ sheet \in {SheetOf("[\"f\", \"o.r\"]", keep1, "TRUE", " Yes ", "1") : keep1 \in {"TRUE", "FALSE"}}
    /\ ens = <<>>

NextWait ==
    \/ WaitRender \/ MakeClients \/ LoadConfigBegin \/ LoadConfigEnd
    \/ Resolve \/ Copy \/ Poll \/ Placeholders \/ DeleteOnMissing
    \/ BatchUpdate \/ Export \/ Upload \/ Delete \/ Note \/ Catch \/ Finish

SpecWait == InitWait /\ [][NextWait]_vars /\ WF_vars(Poll)

-----------------------------------------------------------------------------
(* Vocabulary of the properties *)

HasCall(name) == \E i \in 1..Len(log) : log[i].call = name

CountCalls(name) == Cardinality({i \in 1..Len(log) : log[i].call = name})

Failed(name) == \E i \in 1..Len(log) : log[i].call = name /\ ~log[i].ok

Succeeded(name) == \E i \in 1..Len(log) : log[i].call = name /\ log[i].ok

\* the paths of the resolved template that the payload leaves missing
MissingOfRequest ==
    IF ~IsTemplate(loc.template) THEN <<>>
    ELSE IF variant = "server"
         THEN MissingS(req.payload, loc.template.required_placeholders.a)
         ELSE MissingP(req.payload, RequiredP(loc.template))

Keeps == IsTemplate(loc.template) /\ loc.template.keep_intermediate_doc

\* the is_active cell of data row n of a range, as the variant reads it
ActiveCell(values, n) ==
    LET i == ColumnIndex(values[1], "is_active") IN
    IF i <= Len(values[n + 1]) THEN Str(values[n + 1][i]) ELSE Undef

RowIsActive(values, n) ==
    IF variant = "server" THEN parseBoolean(ActiveCell(values, n))
    ELSE toBool(ActiveCell(values, n))

AllFromActiveRows(records, values) ==
    \A n \in 1..Len(records) : RowIsActive(values, records[n].row)

\* the six calls of the render pipeline, in the order of the flow
PipelineRank(name) ==
    CASE name = "copy" -> 1 [] name = "batchUpdate" -> 2 [] name = "export" -> 3
      [] name = "upload" -> 4 [] name = "delete" -> 5 [] name = "note" -> 6

IsPipelineCall(e) == e.call \in {"copy", "batchUpdate", "export", "upload", "delete", "note"}

PipelineLog == SelectSeq(log, IsPipelineCall)

-----------------------------------------------------------------------------
(* C1 *)

\* C1: batchUpdate, export and upload happen only when no required placeholder
\* is missing from the payload; a request whose template is resolved and whose
\* payload misses a required placeholder ends with status 400 and no upload.
C1_RenderOnlyIfComplete ==
    /\ (HasCall("batchUpdate") \/ HasCall("export") \/ HasCall("upload"))
          => (IsTemplate(loc.template) /\ MissingOfRequest = <<>>)
    /\ (pc = "done" /\ MissingOfRequest # <<>>)
          => (resp.status = 400 /\ ~HasCall("upload"))

-----------------------------------------------------------------------------
(* C2 *)

\* C2: every template and package of the cached config, of the config a
\* request works with and of the body of GET /v1/config comes from a row whose
\* is_active cell parses as true; so does the template POST /v1/render
\* resolves, and when it is resolved through package_key the package row is
\* active as well.
C2_OnlyActiveRows ==
    /\ cache.data # Null =>
          /\ AllFromActiveRows(cache.data.templates, cache.from.templates)
          /\ AllFromActiveRows(cache.data.exam_packages, cache.from.exam_packages)
    /\ loc.config # Null =>
          /\ AllFromActiveRows(loc.config.templates, cache.from.templates)
          /\ AllFromActiveRows(loc.config.exam_packages, cache.from.exam_packages)
    /\ (req.kind = "config" /\ resp.status = 200) =>
          /\ AllFromActiveRows(resp.templates, cache.from.templates)
          /\ AllFromActiveRows(resp.exam_packages, cache.from.exam_packages)
    /\ IsTemplate(loc.template) =>
          /\ RowIsActive(cache.from.templates, loc.template.row)
          /\ loc.template.template_key # Prop(req.payload, "template_key") =>
                \E n \in 1..(Len(cache.from.exam_packages) - 1) :
                    /\ RowIsActive(cache.from.exam_packages, n)
                    /\ Str(cache.from.exam_packages[n + 1][1]) = Prop(req.payload, "package_key")
                    /\ Str(cache.from.exam_packages[n + 1][3]) = loc.template.template_key

\* a template was resolved while the sheet holds an inactive template row
C2_Witness ==
    /\ IsTemplate(loc.template)
    /\ \E n \in 1..(Len(sheet.templates) - 1) : ~RowIsActive(sheet.templates, n)

-----------------------------------------------------------------------------
(* C3 *)

\* C3 as stated: the pipeline calls of a request are issued in the order copy,
\* replace, export, upload, delete, note, and none is started after a call
\* that failed.
C3_StrictOrder ==
    \A i \in 1..Len(PipelineLog), j \in 1..Len(PipelineLog) :
        i < j => /\ PipelineRank(PipelineLog[i].call) < PipelineRank(PipelineLog[j].call)
                 /\ PipelineLog[i].ok

\* C3 amended: copy, replace, export, upload and note are issued in this
\* order, each at most once and only after every earlier one of them
\* succeeded; export needs a successful copy, upload a successful export, note
\* a successful upload.  A delete is issued only after a successful copy; when
\* the template does not keep the copy, a delete issued after the successful
\* upload precedes the note.  A delete may also follow a failed call (cleanup).
C3_Order ==
    LET l == PipelineLog IN
    /\ \A i \in 1..Len(l), j \in 1..Len(l) :
          (i < j /\ l[i].call # "delete" /\ l[j].call # "delete") =>
              /\ PipelineRank(l[i].call) < PipelineRank(l[j].call)
              /\ l[i].ok
    /\ \A j \in 1..Len(l) :
          /\ l[j].call \in {"batchUpdate", "export", "delete"} =>
                \E i \in 1..(j - 1) : l[i].call = "copy" /\ l[i].ok
          /\ l[j].call = "upload" =>
                \E i \in 1..(j - 1) : l[i].call = "export" /\ l[i].ok
          /\ l[j].call = "note" =>
                \E i \in 1..(j - 1) : l[i].call = "upload" /\ l[i].ok
          /\ (l[j].call = "note" /\ ~Keeps) =>
                \E i \in 1..(j - 1), k \in 1..(j - 1) :
                    /\ i < k
                    /\ l[i].call = "upload" /\ l[i].ok
                    /\ l[k].call = "delete"

\* a request ran all six calls and answered 200 with a note
C3_Witness ==
    /\ pc = "done" /\ req.kind = "render" /\ resp.status = 200 /\ resp.note
    /\ Len(PipelineLog) = 6

-----------------------------------------------------------------------------
(* C4 *)

\* C4: a request answered 400 has issued no Drive copy call.
C4_No400AfterCopy == (pc = "done" /\ resp.status = 400) => ~HasCall("copy")

-----------------------------------------------------------------------------
(* C5 *)

\* C5: when the resolved template keeps its intermediate document, no Drive
\* delete call is issued by the request.
C5_KeptNeverDeleted == Keeps => ~HasCall("delete")

-----------------------------------------------------------------------------
(* C6 *)

\* C6: when the template does not keep the intermediate document and the
\* request is answered 200, exactly one delete call was issued, after the
\* upload succeeded.
C6_OneDeleteOn200 ==
    (pc = "done" /\ req.kind = "render" /\ resp.status = 200 /\ ~Keeps) =>
        /\ CountCalls("delete") = 1
        /\ \E i \in 1..Len(log), j \in 1..Len(log) :
              /\ i < j
              /\ log[i].call = "upload" /\ log[i].ok
              /\ log[j].call = "delete"

\* a render of a template that does not keep the copy was answered 200
C6_Witness ==
    /\ pc = "done" /\ req.kind = "render" /\ resp.status = 200
    /\ IsTemplate(loc.template) /\ ~Keeps

-----------------------------------------------------------------------------
(* C7 *)

\* C7: when the copy succeeded and the existence poll, batchUpdate, export or
\* upload failed, a delete of the copy was issued after the failure and before
\* the error response, and the response carries the failure whatever the
\* delete did.
C7_CleanupOnFailure ==
    \A i \in 1..Len(log) :
        (/\ pc = "done"
         /\ Succeeded("copy")
         /\ log[i].call \in {"get", "batchUpdate", "export", "upload"}
         /\ ~log[i].ok)
        => /\ \E j \in (i + 1)..Len(log) : log[j].call = "delete"
           /\ resp.status = 500

-----------------------------------------------------------------------------
(* C8 *)

AllFailures == {i \in 1..Len(log) : ~log[i].ok}

\* the failures that end the request: every failed call but the best-effort
\* deletes (all deletes of part_000, the delete of server.js's catch block)
EndingFailures ==
    {i \in AllFailures :
        \/ log[i].call # "delete"
        \/ (variant = "server" /\ \A j \in 1..(i - 1) : log[j].ok)}

\* the error field is the message of the error raised for the failed call
Carries(message, name) ==
    \/ message = UpstreamMessage(name)
    \/ name = "note" /\ message \in {"Sell note creation failed: " \o UpstreamMessage(name),
                                     "Sell note error: " \o UpstreamMessage(name)}
    \/ name = "get" /\ message = "File not found (after retries)"

Is400Justified ==
    /\ req.kind = "render"
    /\ loc.config # Null
    /\ ~IsTemplate(loc.template) \/ MissingOfRequest # <<>>

\* C8 as stated: a request in which any upstream call failed is answered 500
\* with that failure's message, and 400 is answered only for an unresolved
\* template or missing placeholders.
C8_EveryFailureIs500 ==
    pc = "done" =>
        /\ AllFailures # {} =>
              /\ resp.status = 500
              /\ \E i \in AllFailures : Carries(resp.error, log[i].call)
        /\ resp.status \in 400..499 => (resp.status = 400 /\ Is400Justified)

\* C8 amended: a request in which a call other than a best-effort delete
\* failed is answered 500 with that failure's message, never 200 or 4xx; a
\* failed best-effort delete leaves the response as it would have been; 400
\* is answered only for an unresolved template or missing placeholders.
C8_EndingFailureIs500 ==
    pc = "done" =>
        /\ EndingFailures # {} =>
              /\ resp.status = 500
              /\ \E i \in EndingFailures : Carries(resp.error, log[i].call)
        /\ resp.status \in 400..499 => (resp.status = 400 /\ Is400Justified)
        /\ resp.status = 200 => EndingFailures = {}

\* a request was answered 500 after its upload failed and the cleanup delete
\* failed too
C8_Witness ==
    /\ pc = "done" /\ resp.status = 500
    /\ Failed("upload") /\ Failed("delete")

-----------------------------------------------------------------------------
(* C9 *)

\* C9: a supplied template_key decides alone: the resolved template has that
\* key, and when no loaded template has it the request is answered 400
\* whatever package_key says.
C9_TemplateKeyDecides ==
    LET templateKey == Prop(req.payload, "template_key") IN
    Truthy(templateKey) =>
        /\ IsTemplate(loc.template) => loc.template.template_key = templateKey
        /\ (/\ pc = "done"
            /\ loc.config # Null
            /\ \A n \in 1..Len(loc.config.templates) :
                  loc.config.templates[n].template_key # templateKey)
           => resp.status = 400

-----------------------------------------------------------------------------
(* C10 *)

\* C10 as stated: with t the time at which the load that filled the cache
\* completed, a call made before t + 60 s is served from the cache.
C10_FreshFromCompletion ==
    /\ pc = "reading" => ~(cache.data # Null /\ loc.began < cache.filledAt + CONFIG_TTL_MS)
    /\ (pc = "loaded" /\ loc.hit) => loc.began < cache.filledAt + CONFIG_TTL_MS

\* the time from which the 60 s count: the end of the filling load in
\* server.js, its beginning in part_000
FreshFrom == IF variant = "server" THEN cache.filledAt ELSE cache.beganAt

\* C10 amended: a call made before FreshFrom + 60 s, with a filled cache,
\* returns the cached config and reads nothing; a call made at or after it
\* reads both ranges and, when it succeeds, the cache holds exactly the config
\* built from the rows read.
C10_CacheTtl ==
    /\ pc = "reading" => ~(cache.data # Null /\ loc.began < FreshFrom + CONFIG_TTL_MS)
    /\ (pc = "loaded" /\ loc.hit) =>
          /\ cache.data # Null
          /\ loc.began < FreshFrom + CONFIG_TTL_MS
          /\ loc.config = cache.data
          /\ ~HasCall("sheets.templates") /\ ~HasCall("sheets.exam_packages")
    /\ (pc = "loaded" /\ ~loc.hit) =>
          /\ Succeeded("sheets.templates") /\ Succeeded("sheets.exam_packages")
          /\ cache.data = loc.config
          /\ cache.data = BuildConfig(cache.from).v
          /\ cache.beganAt = loc.began

\* a call finds the cache filled but expired and starts a fresh read
C10_Witness ==
    /\ pc = "reading"
    /\ cache.data # Null
    /\ loc.began >= FreshFrom + CONFIG_TTL_MS

-----------------------------------------------------------------------------
(* C11 *)

\* RENDER_API_KEY is configured and the header is absent or differs from it
KeyRejected(key) ==
    env.RENDER_API_KEY # "" /\ (key = Undef \/ key # Str(env.RENDER_API_KEY))

IsGuarded(kind) == kind \in {"config", "render"}

\* what the gate answers: a rejected request is answered 401 at once, with no
\* upstream call; any other request is never answered 401; GET /health is
\* answered {ok: true} whatever the key
C11_Answers ==
    /\ (IsGuarded(req.kind) /\ KeyRejected(req.key)) =>
          /\ pc = "done" /\ resp.status = 401
          /\ log = <<>> /\ loc = NoLocals
    /\ (IsGuarded(req.kind) /\ ~KeyRejected(req.key)) => resp.status # 401
    /\ req.kind = "health" =>
          /\ pc = "done" /\ resp = [status |-> 200, ok |-> TRUE]
          /\ log = <<>> /\ loc = NoLocals
    /\ \A h \in DOMAIN ens :
          /\ (ens[h].pc # "idle" /\ KeyRejected(ens[h].key)) =>
                /\ ens[h].pc = "done" /\ ens[h].resp.status = 401
                /\ ens[h].calls = <<>>
          /\ (ens[h].pc # "idle" /\ ~KeyRejected(ens[h].key)) => ens[h].resp.status # 401

\* what a rejected request changes: neither its arrival nor its end changes
\* the config cache, and a rejected ensure request creates no folder
C11_NoEffect ==
    /\ ((IsGuarded(req.kind) /\ KeyRejected(req.key))
        \/ (IsGuarded(req'.kind) /\ KeyRejected(req'.key))
        \/ req.kind = "health" \/ req'.kind = "health") => cache' = cache
    /\ (\A h \in DOMAIN ens :
          (ens[h].pc # "idle" /\ KeyRejected(ens[h].key))
          \/ (ens'[h].pc # "idle" /\ KeyRejected(ens'[h].key))
          \/ (ens[h].pc = "idle" /\ ens'[h].pc = "idle")) => folders' = folders

\* C11: with RENDER_API_KEY configured, a request to GET /v1/config,
\* POST /v1/render or POST /v1/drive/folder/ensure whose x-api-key header is
\* absent or differs from the key is answered 401, makes no Sheets, Drive, Docs
\* or Sell call and changes neither the config cache nor Drive; without
\* RENDER_API_KEY every request passes the gate; GET /health is answered
\* {ok: true} in both cases, with or without a key.
C11_Gate == []C11_Answers /\ [][C11_NoEffect]_vars

\* a render request without the header was answered 401 while a key is
\* configured and the ensure request in flight, with a wrong key, was too
C11_Witness ==
    /\ env.RENDER_API_KEY = "k"
    /\ req.kind = "render" /\ req.key = Undef /\ pc = "done" /\ resp.status = 401
    /\ ens[1].key = Str("x") /\ ens[1].pc = "done" /\ ens[1].resp.status = 401

-----------------------------------------------------------------------------
(* C20 *)

\* C20: for one root folder and one deal id at most one folder Deal_<dealId>
\* has been created under the root, and the ensure requests answered 200 for
\* that root and deal id all carry the id of the same folder.
C20_OneFolderPerDeal ==
    /\ \A f \in folders, g \in folders : (f.root = g.root /\ f.name = g.name) => f = g
    /\ \A h \in DOMAIN ens, k \in DOMAIN ens :
          (/\ ens[h].pc = "done" /\ ens[h].resp.status = 200
           /\ ens[k].pc = "done" /\ ens[k].resp.status = 200
           /\ RootIdOf(ens[h].payload) = RootIdOf(ens[k].payload)
           /\ FolderNameOf(ens[h].payload) = FolderNameOf(ens[k].payload))
          => ens[h].resp.folder_id = ens[k].resp.folder_id

-----------------------------------------------------------------------------
(* C12 *)

\* the calls of the render pipeline that are made once
OnceCalls == {"copy", "batchUpdate", "export", "upload", "note"}

\* C12: within one render request copy, batchUpdate, export, upload and the
\* Sell note are each called at most once, and once one of them failed the
\* request ends: no call follows but the delete of the copy, and the handler
\* is in its catch block or has answered, with an error.
C12_NoRetry ==
    /\ \A name \in OnceCalls : CountCalls(name) <= 1
    /\ \A i \in 1..Len(log) :
          (log[i].call \in OnceCalls /\ ~log[i].ok) =>
              /\ \A j \in (i + 1)..Len(log) : log[j].call = "delete"
              /\ pc \in {"catch", "done"}
              /\ pc = "done" => resp.status = 500

\* a request ended after its export failed
C12_Witness == pc = "done" /\ req.kind = "render" /\ Failed("export")

-----------------------------------------------------------------------------
(* C13 *)

\* C13: at the end of a render request a Sell note was posted if and only if
\* the PDF was uploaded and the payload carries a truthy sell.resource_type
\* and sell.resource_id; without them the 200 response carries pdf and no
\* note; a created note is answered 200 with pdf and note.
C13_NoteIffUploaded ==
    (pc = "done" /\ req.kind = "render") =>
        /\ HasCall("note") <=> (Succeeded("upload") /\ WantsNote(req.payload))
        /\ (resp.status = 200 /\ ~WantsNote(req.payload)) => (resp.pdf /\ ~resp.note)
        /\ Succeeded("note") => (resp.status = 200 /\ resp.pdf /\ resp.note)

-----------------------------------------------------------------------------
(* C19 *)

\* C19: a render request answered with an error status has created no PDF:
\* a successful upload is always followed by a 200 response.
C19_UploadedMeans200 ==
    (pc = "done" /\ req.kind = "render" /\ Succeeded("upload")) => resp.status = 200

-----------------------------------------------------------------------------
(* C14 *)

HasSeparator(s) == \E i \in 1..Len(s) : CharAt(s, i) \in {"/", "\\"}

\* C14: whatever the pattern (empty and missing included) and the payload,
\* the name built holds no '/' and no '\', ends with ".pdf" in some letter
\* case, and is the name before the suffix step unchanged when that one
\* already ended with ".pdf" in some letter case.
C14_SafeName ==
    pc = "named" =>
        /\ ~HasSeparator(resp.name)
        /\ EndsWith(ToLowerCase(resp.name), ".pdf")
        /\ EndsWith(ToLowerCase(resp.base), ".pdf") => resp.name = resp.base
        /\ ~EndsWith(ToLowerCase(resp.base), ".pdf") => resp.name = resp.base \o ".pdf"

\* a name was built from a pattern that ends with .PdF and a payload value
\* that holds a separator
C14_Witness ==
    /\ pc = "named"
    /\ loc.template.output_filename_pattern = Str("{ p }.PdF")
    /\ Prop(req.payload, "p") \in {Str("c/d"), Str("e\\f")}

-----------------------------------------------------------------------------
(* C15 *)

\* the last call of the log is a drive.files.get with this outcome
LastIsGet(l, ok) == Len(l) > 0 /\ l[Len(l)] = Call("get", ok)

\* while waitForFile runs, loc.polls is the number of drive.files.get calls it
\* has made, all of them failed with not-found: the next call is at most the
\* sixth
C15_Bounded == pc = "wait" => loc.polls \in 0..(Len(Delays) - 1)

\* a step of waitForFile: a call that fails with not-found, fewer than six
\* made, is followed by another one; a call that succeeds returns at once;
\* any other failure is rethrown at once; the sixth not-found throws 'File
\* not found (after retries)'
C15_Step ==
    pc = "wait" =>
        \/ /\ pc' = "wait"
           /\ loc'.polls = loc.polls + 1 /\ loc'.polls < Len(Delays)
           /\ log' = log
        \/ /\ pc' \in {"placeholders", "export"}
           /\ log' = Append(log, Call("get", TRUE))
        \/ /\ pc' = "catch"
           /\ log' = Append(log, Call("get", FALSE))
           /\ \/ loc'.err.message = UpstreamMessage("get")
              \/ /\ loc'.err.message = "File not found (after retries)"
                 /\ loc.polls + 1 = Len(Delays)

\* C15: waitForFile makes at most 6 drive.files.get calls, returns at the
\* first call that succeeds, rethrows at once an error that is not a not-found
\* error, throws 'File not found (after retries)' when all 6 calls failed with
\* not-found, and always terminates.
C15_WaitForFile ==
    /\ []C15_Bounded
    /\ [][C15_Step]_vars
    /\ (pc = "wait") ~> (pc # "wait")

\* the sixth call failed with not-found and waitForFile gave up
C15_Witness ==
    /\ pc = "catch"
    /\ loc.polls + 1 = Len(Delays)
    /\ loc.err.message = "File not found (after retries)"
    /\ LastIsGet(log, FALSE)

-----------------------------------------------------------------------------
(* C16 *)

\* C16: in the cached config required_placeholders of every template and
\* exams of every package is an array.
C16_ArraysOnly ==
    cache.data # Null =>
        /\ \A n \in 1..Len(cache.data.templates) :
              cache.data.templates[n].required_placeholders.t = "array"
        /\ \A n \in 1..Len(cache.data.exam_packages) :
              cache.data.exam_packages[n].exams.t = "array"

-----------------------------------------------------------------------------
(* C17 *)

\* only the successful end of a load changes the cache: the steps of a call
\* that fails, up to and including its failure, leave data and stamp alone
C17_OnlySuccessWrites == (cache' # cache) => (pc = "reading" /\ pc' = "loaded")

\* what the cache holds was built by a load that succeeded; a failure is
\* never stored
C17_NoFailureCached ==
    cache.data # Null =>
        /\ BuildConfig(cache.from).ok
        /\ cache.data = BuildConfig(cache.from).v
        /\ cache.stamp = StampAfterLoad(cache.beganAt, cache.filledAt)

\* C17: a loadConfig call that fails (a Sheets read fails, or in server.js a
\* JSON-array cell of an active row is invalid) leaves the config cache as it
\* was before the call, data and stamp; the failure is not cached, and the
\* next call reads again unless an earlier entry is still valid.
C17_FailureLeavesCache ==
    /\ [][C17_OnlySuccessWrites]_vars
    /\ []C17_NoFailureCached
    /\ [](pc = "catch" => loc.config = Null)

\* a load failed on an invalid JSON cell while the cache held an earlier entry
C17_Witness ==
    /\ pc = "catch" /\ req.kind = "config"
    /\ cache.data # Null
    /\ loc.err.message = "Invalid JSON"

-----------------------------------------------------------------------------
(* C18 *)

\* C18: the freshness stamp of the cache never decreases, and the cache is
\* never overwritten by a load that began before the load whose data it holds.
C18_NeverBackwards ==
    [][/\ cache'.stamp >= cache.stamp
       /\ (cache' # cache /\ cache.data # Null) => cache'.beganAt >= cache.beganAt]_vars

\* C21: ensureDealFolder answers 400 to a request whose drive_root_folder_id
\* normalizes to the empty string or whose deal_id is missing, and it does so
\* before any Drive call: such a request never has a get, list or create among
\* its calls, and once the Google clients were made its answer is 400. A 400 is
\* given to such requests only, and every other failure (a call that failed:
\* the authorization of the clients, get, list or create) is answered with 500.
DriveCalls == {"get", "list", "create"}

BadEnsureInput(payload) ==
    RootIdOf(payload) = "" \/ ~Truthy(Prop(payload, "deal_id"))

MadeDriveCall(h) == \E i \in 1..Len(ens[h].calls) : ens[h].calls[i].call \in DriveCalls

FailedCall(h) == \E i \in 1..Len(ens[h].calls) : ~ens[h].calls[i].ok

C21_RejectsBeforeDrive ==
    \A h \in DOMAIN ens :
        /\ (ens[h].pc # "idle" /\ BadEnsureInput(ens[h].payload)) => ~MadeDriveCall(h)
        /\ ens[h].pc = "done" =>
              /\ ens[h].resp.status \in {200, 400, 500}
              /\ ens[h].resp.status = 400 <=>
                    (BadEnsureInput(ens[h].payload) /\ ~FailedCall(h))
              /\ ens[h].resp.status = 500 <=> FailedCall(h)

\* a link-less, blank drive_root_folder_id was answered 400 with no Drive call
C21_Witness ==
    \E h \in DOMAIN ens :
        /\ ens[h].pc = "done"
        /\ Prop(ens[h].payload, "drive_root_folder_id") = Str(" ")
        /\ Truthy(Prop(ens[h].payload, "deal_id"))
        /\ ens[h].resp = ErrorResponse(400, "drive_root_folder_id is required")
        /\ ens[h].calls = <<Call("authorize", TRUE)>>

\* C22: the batchUpdate call of the render pipeline carries exactly one
\* replaceAllText request per entry of the template's required_placeholders,
\* each matching {{path}} case-sensitively and replacing it with the string
\* form of the payload value at that path, and the call is never made with an
\* empty request list: for a template without required placeholders no
\* batchUpdate is made.
BatchUpdateCalled == \E i \in 1..Len(log) : log[i].call = "batchUpdate"

RequiredOf(template) ==
    IF template.required_placeholders.t = "array"
    THEN template.required_placeholders.a ELSE <<>>

PayloadValue(path) ==
    IF variant = "server" THEN getValueByPath(req.payload, path)
    ELSE getByPath(req.payload, path)

C22_BatchRequests ==
    (req.kind = "render" /\ BatchUpdateCalled) =>
        LET required == RequiredOf(loc.template) IN
        /\ Len(loc.requests) = Len(required)
        /\ Len(loc.requests) > 0
        /\ \A i \in 1..Len(required) :
              /\ DOMAIN loc.requests[i] = {"replaceAllText"}
              /\ loc.requests[i].replaceAllText.containsText =
                    [text |-> "{{" \o required[i].s \o "}}", matchCase |-> TRUE]
              /\ loc.requests[i].replaceAllText.replaceText =
                    String(PayloadValue(required[i].s))

=============================================================================
